---- MODULE Spec2Model ----
(***************************************************************************)
(* greaseweazle/image/ipf.py: IPFTrack.strong_data, IPFTrack.verify_track  *)
(* and IPF.get_track.                                                      *)
(*                                                                         *)
(* A bit range is a pair <<start, length>>.  Python sequences are indexed  *)
(* from 0, TLA+ sequences from 1: position p of a Python sequence is       *)
(* element p + 1 of the sequence that models it.                           *)
(***************************************************************************)
EXTENDS Integers, Sequences, FiniteSets, TLC

\* ------------------------------------------------------------------ bounds
\* Most ranges in a sector list and a weak list together.
MaxRanges == 3
\* Longest track, in bits, the decoding service reports.
MaxTrackLen == 10
\* Most entries of the service's per-byte timing buffer.
MaxTimeLen == 2

\* ------------------------------------------------------- program constants
weak_tol == 16
tolerance == 100
WeakSentinelStart == 1073741824
NormalCell == 1000

VARIABLES
    gen,       \* the strong_data generator object
    img,       \* what the decoding service holds: image info and track data
    req,       \* the (cyl, head) get_track was called with
    gt,        \* get_track's position and locals
    calls,     \* the service calls get_track has made, with their status
    ret,       \* how get_track ended
    track,     \* the IPFTrack get_track returned
    raw_bits,  \* the decoded capture verify_track compares with
    vpc,       \* verify_track's position
    vret       \* how verify_track ended

vars == <<gen, img, req, gt, calls, ret, track, raw_bits, vpc, vret>>

pipeline == <<img, req, gt, calls, ret, track, raw_bits, vpc, vret>>

\* --------------------------------------------------------------- helpers
Min(a, b) == IF a < b THEN a ELSE b
Max(a, b) == IF a > b THEN a ELSE b

RStart(r) == r[1]
REnd(r) == r[1] + r[2]

\* The bit positions of the half-open range [start, start + length).
Bits(r) == { p \in RStart(r)..(REnd(r) - 1) : TRUE }

\* The bit positions of all the ranges of a list.
Cover(rs) == UNION { Bits(rs[k]) : k \in 1..Len(rs) }

\* ------------------------------------------------- IPFTrack.strong_data
\* it.chain(weak, [(1<<30,1)])
weak_iter(weak) == weak \o << <<WeakSentinelStart, 1>> >>

\* range_next(i): the (start, end) of the item an iterator at index k yields.
range_next(seq, k) == <<seq[k][1], seq[k][1] + seq[k][2]>>

\* The generator object as created by the call strong_data(sector, weak): no
\* line of its body has run.  si and wi are the positions of sector_iter and
\* weak_iter (index of the next item); out is the sequence yielded so far.
NewGen(sector, weak) ==
    [ sector |-> sector, weak |-> weak, pc |-> "start",
      si |-> 1, wi |-> 1, s |-> 0, e |-> 0, ws |-> -1, we |-> -1,
      out |-> << >> ]

\* Lines 113-117, run by the first next().  range_next on an empty sector
\* list raises StopIteration outside the try block; a StopIteration leaving a
\* generator body is turned into RuntimeError (PEP 479).
Start(g) ==
    IF Len(g.sector) = 0
      THEN [g EXCEPT !.pc = "error"]
      ELSE LET r == range_next(g.sector, 1)
           IN  [g EXCEPT !.s = r[1], !.e = r[2], !.si = 2, !.ws = -1,
                         !.we = -1, !.pc = "loop"]

\* The inner loop with line 122 (we += weak_tol) left out.
SkipWeakNoTol(g) ==
    IF g.wi > Len(weak_iter(g.weak))
      THEN [g EXCEPT !.pc = "done"]
      ELSE LET r == range_next(weak_iter(g.weak), g.wi)
           IN  [g EXCEPT !.ws = r[1], !.we = r[2], !.wi = g.wi + 1]

\* One pass of the inner loop, lines 120-122 (we <= s holds).
SkipWeak(g) ==
    IF g.wi > Len(weak_iter(g.weak))
      THEN [g EXCEPT !.pc = "done"]
      ELSE LET r == range_next(weak_iter(g.weak), g.wi)
           IN  [g EXCEPT !.ws = r[1], !.we = r[2] + weak_tol, !.wi = g.wi + 1]

\* Lines 130-131 after s has been advanced to s1: fetch the next sector when
\* the current one is used up; StopIteration (inside the try) ends the walk.
NextSector(g, s1) ==
    IF s1 >= g.e
      THEN IF g.si > Len(g.sector)
             THEN [g EXCEPT !.s = s1, !.pc = "done"]
             ELSE LET r == range_next(g.sector, g.si)
                  IN  [g EXCEPT !.s = r[1], !.e = r[2], !.si = g.si + 1]
      ELSE [g EXCEPT !.s = s1]

\* Lines 123-131 (we > s holds): the body of the outer loop after the inner
\* loop has ended, with its yield.
Emit(g) ==
    IF g.ws < g.e
      THEN LET g1 == IF g.s < g.ws
                       THEN [g EXCEPT !.out = Append(g.out, <<g.s, g.ws - g.s>>)]
                       ELSE g
           IN  NextSector(g1, g.we)
      ELSE NextSector([g EXCEPT !.out = Append(g.out, <<g.s, g.e - g.s>>)], g.e)

\* The generator has returned or raised.
Finished(g) == g.pc \in {"done", "error"}

\* One step of the generator body.
SDStep(g) ==
    CASE g.pc = "start" -> Start(g)
      [] g.pc = "loop" /\ g.we <= g.s -> SkipWeak(g)
      [] g.pc = "loop" /\ g.we > g.s -> Emit(g)
      [] OTHER -> g

\* --------------------------------------------- inputs of strong_data (SpecSD)
SecGaps == {0, 1, 17}
SecLens == {0, 1, 20, 40}
WeakGaps == {0, 1, 3, 20}
WeakLens == {0, 1, 2}

\* The range lists of exactly n ranges that start at or after `from`, each
\* range a gap after the end of the one before it: ascending and disjoint.
RECURSIVE ListsFrom(_, _, _, _)
ListsFrom(n, from, gaps, lens) ==
    IF n = 0 THEN { << >> }
    ELSE UNION { { << <<from + gl[1], gl[2]>> >> \o rest :
                     rest \in ListsFrom(n - 1, from + gl[1] + gl[2], gaps, lens) } :
                 gl \in gaps \X lens }

\* start >= 0, length >= 0, ascending, disjoint.
WellFormed(rs) ==
    /\ \A k \in 1..Len(rs) : rs[k][1] >= 0 /\ rs[k][2] >= 0
    /\ \A k \in 1..(Len(rs) - 1) : REnd(rs[k]) <= RStart(rs[k + 1])

SDInputs ==
    UNION { ListsFrom(n, 0, SecGaps, SecLens) \X ListsFrom(m, 0, WeakGaps, WeakLens) :
              <<n, m>> \in { <<n, m>> \in (0..MaxRanges) \X (0..MaxRanges) :
                               n + m <= MaxRanges } }

\* No image is open and no track is being read or verified.
NoImage ==
    [ pi |-> [mincylinder |-> 0, maxcylinder |-> 0, minhead |-> 0, maxhead |-> 0],
      tracklen |-> 0, trackbuf |-> << >>, has_timebuf |-> FALSE,
      timebuf |-> << >>, overlap |-> 0, sectors |-> << >>, weak |-> << >> ]

NoTrack ==
    [ bits |-> << >>, has_ticks |-> FALSE, bit_ticks |-> << >>, splice |-> 0,
      weak |-> << >>, sectors |-> << >> ]

GtIdle == [ pc |-> "idle", i |-> 0, data |-> << >>, weak |-> << >>, trackbuf |-> << >> ]

PipelineIdle ==
    /\ img = NoImage
    /\ req = <<0, 0>>
    /\ gt = GtIdle
    /\ calls = << >>
    /\ ret = "pending"
    /\ track = NoTrack
    /\ raw_bits = << >>
    /\ vpc = "idle"
    /\ vret = "none"

InitSD == PipelineIdle /\ \E in \in SDInputs : gen = NewGen(in[1], in[2])

SDStart ==
    /\ vpc = "idle"
    /\ gen.pc = "start"
    /\ gen' = Start(gen)
    /\ UNCHANGED pipeline

SDSkipWeak ==
    /\ vpc = "idle"
    /\ gen.pc = "loop"
    /\ gen.we <= gen.s
    /\ gen' = SkipWeak(gen)
    /\ UNCHANGED pipeline

SDEmit ==
    /\ vpc = "idle"
    /\ gen.pc = "loop"
    /\ gen.we > gen.s
    /\ gen' = Emit(gen)
    /\ UNCHANGED pipeline

NextSD == SDStart \/ SDSkipWeak \/ SDEmit

SpecSD == InitSD /\ [][NextSD]_vars

\* ---------------------------------------------------------- Python values
\* seq[a:b] with a >= 0 and b >= 0: the items at positions a .. b-1 that
\* exist (a slice is clipped to the sequence, it never raises).
PySlice(seq, a, b) == SubSeq(seq, a + 1, Min(b, Len(seq)))

\* Bit k of a byte, k = 0 the most significant one: bitarray(endian='big').
BitOfByte(byte, k) == (byte \div (2 ^ (7 - k))) % 2

\* bitarray.frombytes: eight bits per byte, most significant bit first.
frombytes(bytes) ==
    [ p \in 1..(8 * Len(bytes)) |->
        BitOfByte(bytes[((p - 1) \div 8) + 1], (p - 1) % 8) ]

\* error.check(pred, msg): raises error.Fatal unless pred holds.
error_check(pred) == IF pred THEN "ok" ELSE "Fatal"

\* -------------------------------------------------------- IPF.get_track
\* Lines 219-224: the service's byte buffer as tracklen bits.
TrackBits(ti) == PySlice(frombytes(ti.trackbuf), 0, ti.tracklen)

\* Lines 233 and 243: a range start made splice- rather than index-relative.
SpliceRelative(start, size, ti) == <<(start - ti.overlap) % ti.tracklen, size>>

\* Lines 247-259: per-byte timing unpacked to per-bitcell timing, padded with
\* normal cell lengths and clipped to the track length.
UnpackTiming(carray, tracklen) ==
    LET perbit == [ p \in 1..(8 * Len(carray)) |-> carray[((p - 1) \div 8) + 1] ]
        pad == [ p \in 1..Max(tracklen - 8 * Len(carray), 0) |-> NormalCell ]
    IN  PySlice(perbit \o pad, 0, tracklen)

\* A rotation the other way: seq[-overlap:] + seq[:-overlap].
RotateRight(seq, overlap) ==
    PySlice(seq, Len(seq) - overlap, Len(seq)) \o PySlice(seq, 0, Len(seq) - overlap)

\* Lines 263 and 265: seq[overlap:] + seq[:overlap].
Rotate(seq, overlap) ==
    PySlice(seq, overlap, Len(seq)) \o PySlice(seq, 0, overlap)

\* Lines 245-279: what get_track returns once every service call succeeded.
AssembleTrack(ti, g) ==
    LET timebuf == IF ti.has_timebuf
                     THEN UnpackTiming(ti.timebuf, ti.tracklen)
                     ELSE << >>
    IN  [ bits |-> IF ti.overlap # 0 THEN Rotate(g.trackbuf, ti.overlap)
                                      ELSE g.trackbuf,
          has_ticks |-> ti.has_timebuf,
          bit_ticks |-> IF ti.overlap # 0 /\ ti.has_timebuf /\ Len(timebuf) > 0
                          THEN Rotate(timebuf, ti.overlap)
                          ELSE timebuf,
          splice |-> ti.overlap,
          weak |-> g.weak,
          sectors |-> g.data ]

\* Where get_track goes on once the sector loop (from = "sectors") or the
\* lock (from = "lock") is behind it: an empty loop is skipped.
AfterLoop(from, ti) ==
    IF from = "lock" /\ Len(ti.sectors) > 0 THEN "sectors"
    ELSE IF Len(ti.weak) > 0 THEN "weak"
    ELSE "assemble"

Status == {0, 1}

\* Lines 205-210: the call, and the range checks that return None.
GetTrackCall ==
    /\ gt.pc = "idle"
    /\ img # NoImage
    /\ \E cyl \in 0..2, head \in 0..2 :
         /\ req' = <<cyl, head>>
         /\ IF \/ head < img.pi.minhead \/ head > img.pi.maxhead
               \/ cyl < img.pi.mincylinder \/ cyl > img.pi.maxcylinder
              THEN /\ ret' = "None"
                   /\ gt' = [gt EXCEPT !.pc = "done"]
              ELSE /\ ret' = ret
                   /\ gt' = [gt EXCEPT !.pc = "lock"]
    /\ UNCHANGED <<gen, img, calls, track, raw_bits, vpc, vret>>

\* Lines 212-224: CAPSLockTrack, its check, the empty track, the bit buffer.
\* The service answers with a status and with or without a track buffer.
LockTrack ==
    /\ gt.pc = "lock"
    /\ \E res \in Status, hasbuf \in BOOLEAN :
         /\ calls' = Append(calls, [fn |-> "lock_track", i |-> 0, res |-> res,
                                    trackbuf |-> hasbuf])
         /\ IF error_check(res = 0) = "Fatal"
              THEN /\ ret' = "Fatal"
                   /\ gt' = [gt EXCEPT !.pc = "done"]
              ELSE IF ~hasbuf
                THEN /\ ret' = "None"
                     /\ gt' = [gt EXCEPT !.pc = "done"]
                ELSE /\ ret' = ret
                     /\ gt' = [gt EXCEPT !.pc = AfterLoop("lock", img),
                                         !.trackbuf = TrackBits(img)]
    /\ UNCHANGED <<gen, img, req, track, raw_bits, vpc, vret>>

\* The sector loop with the check of line 231 left out.
GetSectorInfoNoCheck ==
    /\ gt.pc = "sectors"
    /\ \E res \in Status :
         /\ calls' = Append(calls, [fn |-> "get_sector_info", i |-> gt.i,
                                    res |-> res, trackbuf |-> TRUE])
         /\ LET si == img.sectors[gt.i + 1]
            IN  /\ ret' = ret
                /\ gt' = [gt EXCEPT
                     !.data = Append(gt.data, SpliceRelative(si[1], si[2], img)),
                     !.i = IF gt.i + 1 < Len(img.sectors) THEN gt.i + 1 ELSE 0,
                     !.pc = IF gt.i + 1 < Len(img.sectors)
                              THEN "sectors" ELSE AfterLoop("sectors", img)]
    /\ UNCHANGED <<gen, img, req, track, raw_bits, vpc, vret>>

\* Lines 227-234: one pass of the sector loop.
GetSectorInfo ==
    /\ gt.pc = "sectors"
    /\ \E res \in Status :
         /\ calls' = Append(calls, [fn |-> "get_sector_info", i |-> gt.i,
                                    res |-> res, trackbuf |-> TRUE])
         /\ IF error_check(res = 0) = "Fatal"
              THEN /\ ret' = "Fatal"
                   /\ gt' = [gt EXCEPT !.pc = "done"]
              ELSE LET si == img.sectors[gt.i + 1]
                   IN  /\ ret' = ret
                       /\ gt' = [gt EXCEPT
                            !.data = Append(gt.data, SpliceRelative(si[1], si[2], img)),
                            !.i = IF gt.i + 1 < Len(img.sectors) THEN gt.i + 1 ELSE 0,
                            !.pc = IF gt.i + 1 < Len(img.sectors)
                                     THEN "sectors" ELSE AfterLoop("sectors", img)]
    /\ UNCHANGED <<gen, img, req, track, raw_bits, vpc, vret>>

\* Lines 237-243: one pass of the weak loop.
GetWeakInfo ==
    /\ gt.pc = "weak"
    /\ \E res \in Status :
         /\ calls' = Append(calls, [fn |-> "get_weak_info", i |-> gt.i,
                                    res |-> res, trackbuf |-> TRUE])
         /\ IF error_check(res = 0) = "Fatal"
              THEN /\ ret' = "Fatal"
                   /\ gt' = [gt EXCEPT !.pc = "done"]
              ELSE LET wi == img.weak[gt.i + 1]
                   IN  /\ ret' = ret
                       /\ gt' = [gt EXCEPT
                            !.weak = Append(gt.weak, SpliceRelative(wi[1], wi[2], img)),
                            !.i = IF gt.i + 1 < Len(img.weak) THEN gt.i + 1 ELSE 0,
                            !.pc = IF gt.i + 1 < Len(img.weak)
                                     THEN "weak" ELSE "assemble"]
    /\ UNCHANGED <<gen, img, req, track, raw_bits, vpc, vret>>

\* Lines 245-279: timing, rotation to the splice, the IPFTrack returned.
ReturnTrack ==
    /\ gt.pc = "assemble"
    /\ track' = AssembleTrack(img, gt)
    /\ ret' = "Track"
    /\ gt' = [gt EXCEPT !.pc = "done"]
    /\ UNCHANGED <<gen, img, req, calls, raw_bits, vpc, vret>>

\* ------------------------------------------------ IPFTrack.verify_track
verify_revs == 2

\* next() on the generator: its body runs up to the next yield, or to its end.
RECURSIVE Resume(_)
Resume(g) ==
    LET g1 == SDStep(g)
    IN  IF Finished(g1) \/ Len(g1.out) > Len(g.out) THEN g1 ELSE Resume(g1)

\* raw_area.itersearch(sector) finds something: sector occurs in raw_area as
\* a run of consecutive bits (sector is not empty).
Found(raw_area, sector) ==
    \E k \in 0..(Len(raw_area) - Len(sector)) :
        \A j \in 1..Len(sector) : raw_area[k + j] = sector[j]

\* Line 140.
RefSlice(tr, r) == PySlice(tr.bits, r[1], r[1] + r[2])

\* Lines 142-143.
RawArea(tr, raw, r) ==
    PySlice(raw, Max(tr.splice + r[1] - tolerance, 0),
                 tr.splice + r[1] + r[2] + tolerance)

\* A capture of n revolutions that reads the track back exactly, from the
\* index: bit q of the capture is track bit (q - splice) mod tracklen.
Revs(tr, n) ==
    [ q \in 1..(n * Len(tr.bits)) |->
        tr.bits[((q - 1 - tr.splice) % Len(tr.bits)) + 1] ]

Flip(bits) == [ q \in 1..Len(bits) |-> 1 - bits[q] ]

\* What RawTrack.get_all_data may decode from the flux handed to verify_track.
Captures(tr) ==
    { Revs(tr, 1), Revs(tr, verify_revs), Flip(Revs(tr, verify_revs)) }

\* Lines 136-139: the capture is cued and decoded, the generator created.
VerifyStart ==
    /\ ret = "Track"
    /\ vpc = "idle"
    /\ \E raw \in Captures(track) : raw_bits' = raw
    /\ gen' = NewGen(track.sectors, track.weak)
    /\ vpc' = "iter"
    /\ UNCHANGED <<img, req, gt, calls, ret, track, vret>>

\* Lines 139-147: one pass of the loop, from the generator's next yield to
\* the search, or the end of the loop.  The generator's RuntimeError leaves
\* verify_track as it is.  Searching for an empty bitarray raises ValueError
\* in some releases of the bitarray library and matches in others.
VerifyNext ==
    /\ vpc = "iter"
    /\ LET g2 == Resume(gen)
       IN  /\ gen' = g2
           /\ IF g2.pc = "error"
                THEN vret' = "RuntimeError" /\ vpc' = "done"
              ELSE IF Len(g2.out) = Len(gen.out)
                THEN vret' = "True" /\ vpc' = "done"
              ELSE LET r == g2.out[Len(g2.out)]
                       sector == RefSlice(track, r)
                       raw_area == RawArea(track, raw_bits, r)
                   IN  IF Len(sector) = 0
                         THEN \/ vret' = "ValueError" /\ vpc' = "done"
                              \/ UNCHANGED <<vret, vpc>>
                       ELSE IF ~Found(raw_area, sector)
                         THEN vret' = "False" /\ vpc' = "done"
                       ELSE UNCHANGED <<vret, vpc>>
    /\ UNCHANGED <<img, req, gt, calls, ret, track, raw_bits>>

\* ------------------------------------------------ the images the service holds
ImagePi == [mincylinder |-> 1, maxcylinder |-> 1, minhead |-> 1, maxhead |-> 1]

ByteVals == {178, 77}

Buffers(n) == [ 1..n -> ByteVals ]

TimingBuffer(n) == [ k \in 1..n |-> 900 + 100 * k ]

\* Track contents: every track length, overlap and timing buffer, with one
\* sector over the whole track.
ContentImages ==
    UNION { { [ pi |-> ImagePi, tracklen |-> t, trackbuf |-> b,
                has_timebuf |-> tm[1], timebuf |-> tm[2], overlap |-> ov,
                sectors |-> << <<0, t>> >>, weak |-> << >> ] :
              b \in Buffers((t + 7) \div 8),
              tm \in { <<FALSE, << >> >> } \cup
                     { <<TRUE, TimingBuffer(n)>> : n \in 0..MaxTimeLen },
              ov \in 0..(t - 1) } :
            t \in 1..MaxTrackLen }

TrackGaps == {0, 2}
TrackLens == {0, 3}

InTrack(rs, t) == \A k \in 1..Len(rs) : REnd(rs[k]) <= t

\* Track layouts: sector and weak lists as the service reports them
\* (index-relative, ascending, disjoint, not wrapping), with every overlap.
LayoutImages ==
    UNION { { [ pi |-> ImagePi, tracklen |-> MaxTrackLen,
                trackbuf |-> [ k \in 1..((MaxTrackLen + 7) \div 8) |-> 178 ],
                has_timebuf |-> FALSE, timebuf |-> << >>, overlap |-> ov,
                sectors |-> sw[1], weak |-> sw[2] ] :
              sw \in { x \in ListsFrom(nm[1], 0, TrackGaps, TrackLens) \X
                             ListsFrom(nm[2], 0, TrackGaps, TrackLens) :
                         InTrack(x[1], MaxTrackLen) /\ InTrack(x[2], MaxTrackLen) },
              ov \in 0..(MaxTrackLen - 1) } :
            nm \in { x \in (0..MaxRanges) \X (0..MaxRanges) :
                       x[1] + x[2] <= MaxRanges } }

Init ==
    /\ img \in ContentImages \cup LayoutImages
    /\ req = <<0, 0>>
    /\ gt = GtIdle
    /\ calls = << >>
    /\ ret = "pending"
    /\ track = NoTrack
    /\ raw_bits = << >>
    /\ vpc = "idle"
    /\ vret = "none"
    /\ gen = NewGen(<< >>, << >>)

Next ==
    \/ GetTrackCall
    \/ LockTrack
    \/ GetSectorInfo
    \/ GetWeakInfo
    \/ ReturnTrack
    \/ VerifyStart
    \/ VerifyNext

Spec == Init /\ [][Next]_vars

\* ------------------------------------------------------- claims on SpecSD
\* What strong_data is to keep: the bits of the sectors outside every weak
\* range widened by the 16 bits that follow it.
StrongTarget(sector, weak) ==
    Cover(sector) \ UNION { weak[k][1]..(weak[k][1] + weak[k][2] + 16 - 1) :
                              k \in 1..Len(weak) }

\* C1: the bit positions covered by the ranges strong_data yields are exactly
\* those of the sectors minus [w.start, w.start + w.length + 16) of every weak
\* range w: none outside at any time, none missing once the iteration has
\* ended, and none covered by two yielded ranges.
C1_StrongCoverExact ==
    /\ Cover(gen.out) \subseteq StrongTarget(gen.sector, gen.weak)
    /\ \A i, j \in 1..Len(gen.out) :
          i < j => Bits(gen.out[i]) \cap Bits(gen.out[j]) = {}
    /\ Finished(gen) => Cover(gen.out) = StrongTarget(gen.sector, gen.weak)

\* A finished walk that cut a weak window out of the middle of a sector and
\* also dropped a whole weak window between two yields.
C1_Witness ==
    /\ gen.pc = "done"
    /\ Len(gen.out) >= 2
    /\ Len(gen.weak) >= 2
    /\ Cover(gen.out) # Cover(gen.sector)
    /\ \E k \in 1..Len(gen.out) : \E w \in 1..Len(gen.weak) :
          REnd(gen.out[k]) = gen.weak[w][1]
    /\ \E k \in 1..Len(gen.out) : \E w \in 1..Len(gen.weak) :
          RStart(gen.out[k]) = REnd(gen.weak[w]) + 16

\* C2: the yielded sequence is strictly ascending by start and
\* non-overlapping, each yielded range lies inside one input sector range,
\* and the sentinel shapes no bound of a yielded range.
C2_StrictlyAscendingInsideSector ==
    /\ \A k \in 1..(Len(gen.out) - 1) :
          /\ RStart(gen.out[k]) < RStart(gen.out[k + 1])
          /\ REnd(gen.out[k]) <= RStart(gen.out[k + 1])
    /\ \A k \in 1..Len(gen.out) :
          /\ \E j \in 1..Len(gen.sector) :
                /\ RStart(gen.sector[j]) <= RStart(gen.out[k])
                /\ REnd(gen.out[k]) <= REnd(gen.sector[j])
          /\ REnd(gen.out[k]) < WeakSentinelStart

\* C3: every yielded range has length > 0.
C3_YieldedLengthPositive ==
    \A k \in 1..Len(gen.out) : gen.out[k][2] > 0

\* C4: iterating strong_data over a well-formed input, an empty sector list
\* included, raises no error.
C4_NoError == gen.pc # "error"

\* --------------------------------------------------------- claims on Spec
\* The Track invariants: every range within 0 .. tracklen, each list ascending
\* by start and without overlap.
InBounds(rs, tracklen) ==
    \A k \in 1..Len(rs) : 0 <= RStart(rs[k]) /\ REnd(rs[k]) <= tracklen

TrackInvariants(tr) ==
    /\ InBounds(tr.sectors, Len(tr.bits))
    /\ InBounds(tr.weak, Len(tr.bits))
    /\ WellFormed(tr.sectors)
    /\ WellFormed(tr.weak)

\* What the service is taken to report: ascending, disjoint ranges that do
\* not wrap, and an overlap inside the track.
ServiceContract(ti) ==
    /\ WellFormed(ti.sectors) /\ InBounds(ti.sectors, ti.tracklen)
    /\ WellFormed(ti.weak) /\ InBounds(ti.weak, ti.tracklen)
    /\ 0 <= ti.overlap /\ ti.overlap < ti.tracklen

\* C5: the sector and weak lists of every Track get_track returns are within
\* the track, ascending and without overlap.
C5_StoredListsKeepInvariants ==
    (ret = "Track" /\ ServiceContract(img)) => TrackInvariants(track)

\* Bit p (from 0) of the track as the service holds it, index-relative.
IndexBit(ti, p) == (ti.trackbuf[(p \div 8) + 1] \div (2 ^ (7 - (p % 8)))) % 2

\* Cell time of bit p (from 0) as the service holds it, index-relative.
IndexTiming(ti, p) ==
    IF p < 8 * Len(ti.timebuf) THEN ti.timebuf[(p \div 8) + 1] ELSE 1000

\* C6: track.bits is the service's bit sequence rotated left by overlap, of
\* the same length; timing, when present, is rotated by the same amount; and
\* rotating track.bits right by overlap gives the service's sequence back.
C6_PureLeftRotation ==
    ret = "Track" =>
      LET n == img.tracklen
      IN  /\ Len(track.bits) = n
          /\ \A i \in 0..(n - 1) :
                track.bits[i + 1] = IndexBit(img, (i + img.overlap) % n)
          /\ track.has_ticks = img.has_timebuf
          /\ img.has_timebuf =>
               /\ Len(track.bit_ticks) = n
               /\ \A i \in 0..(n - 1) :
                     track.bit_ticks[i + 1] = IndexTiming(img, (i + img.overlap) % n)
          /\ \A i \in 0..(n - 1) :
                track.bits[((i - img.overlap) % n) + 1] = IndexBit(img, i)

\* A returned track of more than one byte, with timing, whose rotation moved
\* both the bits and the timing.
C6_Witness ==
    /\ ret = "Track"
    /\ img.overlap > 0
    /\ img.tracklen > 8
    /\ img.has_timebuf
    /\ \E i \in 0..(img.tracklen - 1) : track.bits[i + 1] # IndexBit(img, i)
    /\ \E i \in 0..(img.tracklen - 1) : track.bit_ticks[i + 1] # IndexTiming(img, i)

\* A capture of one revolution that reads the track back exactly.
ExactRevolution(tr, raw) ==
    /\ Len(raw) = Len(tr.bits)
    /\ \A p \in 0..(Len(tr.bits) - 1) :
          raw[((tr.splice + p) % Len(tr.bits)) + 1] = tr.bits[p + 1]

\* C7: verify_track returns True on a track that satisfies the Track
\* invariants when the capture is one revolution that equals track.bits
\* rotated back to the index.
C7_ExactCaptureVerifies ==
    ( /\ vpc = "done"
      /\ TrackInvariants(track)
      /\ 0 <= track.splice /\ track.splice < Len(track.bits)
      /\ ExactRevolution(track, raw_bits) )
    => vret = "True"

\* The whole generator run.
RECURSIVE RunAll(_)
RunAll(g) == IF Finished(g) THEN g ELSE RunAll(SDStep(g))

\* track.bits[s : s+l] occurs in the capture within positions
\* [max(0, splice + s - 100), splice + s + l + 100).
Occurs(tr, raw, r) ==
    LET ref == PySlice(tr.bits, r[1], r[1] + r[2])
        lo == Max(0, tr.splice + r[1] - 100)
        hi == Min(tr.splice + r[1] + r[2] + 100, Len(raw))
    IN  \E k \in lo..(hi - Len(ref)) :
            \A j \in 1..Len(ref) : raw[k + j] = ref[j]

\* C8: verify_track returns True exactly when the reference slice of every
\* sub-range strong_data yields occurs in its window of the capture; it
\* returns False at the first sub-range without an occurrence and examines
\* none after it.
C8_TrueIffEverySliceOccurs ==
    vpc = "done" =>
      LET all == RunAll(NewGen(track.sectors, track.weak)).out
      IN  /\ vret = "True" <=>
               \A k \in 1..Len(all) : Occurs(track, raw_bits, all[k])
          /\ vret \in {"True", "False"}
          /\ vret = "False" =>
               /\ Len(gen.out) >= 1
               /\ gen.out = SubSeq(all, 1, Len(gen.out))
               /\ ~Occurs(track, raw_bits, gen.out[Len(gen.out)])
               /\ \A k \in 1..(Len(gen.out) - 1) :
                     Occurs(track, raw_bits, gen.out[k])

\* The bits of a weak range of the track and the 16 bits that follow it.
WeakBits(tr) ==
    UNION { tr.weak[k][1]..(tr.weak[k][1] + tr.weak[k][2] + 16 - 1) :
              k \in 1..Len(tr.weak) }

\* The bit positions of track.bits[s : s+l].
SliceBits(tr, r) == { p \in Bits(r) : p < Len(tr.bits) }

\* C9: no reference slice verify_track searches for holds a bit of a weak
\* range of the track or of the 16 bits after it.
C9_NoWeakBitCompared ==
    (vpc # "idle" /\ ServiceContract(img)) =>
      \A k \in 1..Len(gen.out) : SliceBits(track, gen.out[k]) \cap WeakBits(track) = {}

\* The service calls get_track makes when none fails, in order.
ExpectedCalls(ti) ==
    << <<"lock_track", 0>> >>
      \o [ k \in 1..Len(ti.sectors) |-> <<"get_sector_info", k - 1>> ]
      \o [ k \in 1..Len(ti.weak) |-> <<"get_weak_info", k - 1>> ]

Failed == \E k \in 1..Len(calls) : calls[k].res # 0

EmptyTrack ==
    Len(calls) = 1 /\ calls[1].res = 0 /\ ~calls[1].trackbuf

OutOfRange ==
    \/ req[2] < img.pi.minhead \/ req[2] > img.pi.maxhead
    \/ req[1] < img.pi.mincylinder \/ req[1] > img.pi.maxcylinder

\* The parts of C10 that do not depend on when None is returned: the calls are
\* made in order and stop at the first failure, an error is raised exactly
\* when a call failed, and a returned Track is complete.
C10_CallsAndErrors ==
    /\ Len(calls) <= Len(ExpectedCalls(img))
    /\ \A k \in 1..Len(calls) :
          /\ <<calls[k].fn, calls[k].i>> = ExpectedCalls(img)[k]
          /\ k < Len(calls) => calls[k].res = 0 /\ calls[k].trackbuf
    /\ ret = "Fatal" <=> Failed
    /\ gt.pc = "done" <=> ret \in {"Fatal", "None", "Track"}
    /\ ret # "Track" => track = NoTrack
    /\ ret = "Track" =>
          /\ Len(calls) = Len(ExpectedCalls(img))
          /\ Len(track.sectors) = Len(img.sectors)
          /\ Len(track.weak) = Len(img.weak)
          /\ Len(track.bits) = img.tracklen

\* C10 as stated: get_track raises exactly when a service call failed,
\* returns None exactly when lock_track succeeded without a track buffer, and
\* otherwise returns a complete Track.
C10_ThreeOutcomes ==
    /\ C10_CallsAndErrors
    /\ ret = "None" <=> EmptyTrack
    /\ (gt.pc = "done" /\ ~Failed /\ ~EmptyTrack) => ret = "Track"

\* C10 amended: None is also returned, before any service call, when the
\* cylinder or head lies outside the image's range.
C10_FourOutcomes ==
    /\ C10_CallsAndErrors
    /\ ret = "None" <=>
          \/ EmptyTrack
          \/ gt.pc = "done" /\ OutOfRange /\ calls = << >>
    /\ (gt.pc = "done" /\ ~Failed /\ ~EmptyTrack /\ ~OutOfRange) => ret = "Track"
    /\ (gt.pc \notin {"idle", "lock"}) => (OutOfRange <=> calls = << >>)

\* get_track stopped with an error in the weak loop, after the lock and at
\* least one sector call had succeeded.
C10_Witness ==
    /\ ret = "Fatal"
    /\ Len(calls) >= 3
    /\ calls[Len(calls)].fn = "get_weak_info"
    /\ calls[2].fn = "get_sector_info"

====
